---- MODULE Spec2Model ----
(***************************************************************************)
(* Model of homework.py: the fitness tracker module.                       *)
(*                                                                         *)
(* Python numbers are modelled as records [k, n, d]:                       *)
(*   k = "fin"  the exact rational n/d (d > 0, lowest terms),              *)
(*   k = "inf"  float infinity of sign n, k = "nan" float not-a-number,    *)
(*   k = "None" the Python None object.                                    *)
(* Finite arithmetic is exact: a double's last-place rounding error is not *)
(* modelled. It can show only where the exact value is a tie at the third  *)
(* decimal, in the last digit printed; no property below depends on which  *)
(* way such a tie goes.                                                    *)
(* An exception raised by a call is a record [type, msg]; NoError is the   *)
(* normal return.                                                          *)
(***************************************************************************)
EXTENDS Integers, Sequences, FiniteSets, TLC

(***************************************************************************)
(* Numbers                                                                 *)
(***************************************************************************)
Abs(x) == IF x < 0 THEN -x ELSE x

\* Euclid's algorithm, as a function so that its arguments are values.
GcdOf[a \in Nat, b \in Nat] == IF b = 0 THEN a ELSE GcdOf[b, a % b]

Gcd(a, b) == GcdOf[a, b]

\* Floor division and modulo with Python's sign rules, for d > 0.
FloorDiv(n, d) == IF n >= 0 THEN n \div d ELSE -(((-n) + d - 1) \div d)

\* The rational n/d in lowest terms with a positive denominator (d # 0).
Rat(n, d) ==
    LET g == Gcd(Abs(n), Abs(d))
        s == IF d < 0 THEN -1 ELSE 1
    IN  [k |-> "fin", n |-> s * (n \div g), d |-> s * (d \div g)]

Num(i) == [k |-> "fin", n |-> i, d |-> 1]

None == [k |-> "None", n |-> 0, d |-> 1]
PosInf == [k |-> "inf", n |-> 1, d |-> 1]
NegInf == [k |-> "inf", n |-> -1, d |-> 1]
NaN == [k |-> "nan", n |-> 0, d |-> 1]

IsFinite(x) == x.k = "fin"

\* Python's x == 0 on a number.
IsZero(x) == x.k = "fin" /\ x.n = 0

Add(x, y) == Rat(x.n * y.d + y.n * x.d, x.d * y.d)
Sub(x, y) == Rat(x.n * y.d - y.n * x.d, x.d * y.d)
\* The product, with the common factors taken out before multiplying.
Mul(x, y) ==
    LET g1 == Gcd(Abs(x.n), y.d)
        g2 == Gcd(Abs(y.n), x.d)
    IN  Rat((x.n \div g1) * (y.n \div g2), (x.d \div g2) * (y.d \div g1))
\* x / y for y # 0 (the callers raise ZeroDivisionError before using it).
Div(x, y) == Rat(x.n * y.d, x.d * y.n)
\* x // y for y # 0: the floor of the quotient, as a float.
FloorDivide(x, y) ==
    LET q == Div(x, y) IN Num(FloorDiv(q.n, q.d))

(***************************************************************************)
(* Class constants                                                         *)
(***************************************************************************)
M_IN_KM == 1000
MIN_IN_H == 60
COEFF_1_FOR_CALCULATING_BURNED_CALORIES_RUNNING == 18
COEFF_2_FOR_CALCULATING_BURNED_CALORIES_RUNNING == 20
COEFF_1_FOR_CALCULATING_BURNED_CALORIES_SPORTSWALKING == Rat(35, 1000)
COEFF_2_FOR_CALCULATING_BURNED_CALORIES_SPORTSWALKING == Rat(29, 1000)
COEFF_1_FOR_CALCULATING_BURNED_CALORIES_SWIMMING == Rat(11, 10)
COEFF_2_FOR_CALCULATING_BURNED_CALORIES_SWIMMING == 2

\* LEN_STEP as the class of the object resolves it: Swimming overrides it.
LEN_STEP(cls) == IF cls = "Swimming" THEN Rat(138, 100) ELSE Rat(65, 100)

(***************************************************************************)
(* Objects                                                                 *)
(***************************************************************************)
Classes == {"Training", "Running", "SportsWalking", "Swimming"}

\* No object: the value of a variable that holds no Training.
NoTraining ==
    [cls |-> "None", action |-> None, duration |-> None, weight |-> None,
     height |-> None, length_pool |-> None, count_pool |-> None,
     calories |-> None]

\* Training.__init__: calories is set to None, then the three base fields.
Training_init(cls, action, duration, weight) ==
    [NoTraining EXCEPT !.cls = cls, !.calories = None, !.action = action,
                       !.duration = duration, !.weight = weight]

SportsWalking_init(action, duration, weight, height) ==
    [Training_init("SportsWalking", action, duration, weight)
        EXCEPT !.height = height]

\* Faulty variant: the two pool arguments stored in each other's attribute.
Swimming_init_swapped(action, duration, weight, length_pool, count_pool) ==
    [Training_init("Swimming", action, duration, weight)
        EXCEPT !.length_pool = count_pool, !.count_pool = length_pool]

Swimming_init(action, duration, weight, length_pool, count_pool) ==
    [Training_init("Swimming", action, duration, weight)
        EXCEPT !.length_pool = length_pool, !.count_pool = count_pool]

\* The number of positional arguments each constructor takes.
Arity(cls) ==
    CASE cls = "SportsWalking" -> 4
      [] cls = "Swimming" -> 5
      [] OTHER -> 3

(***************************************************************************)
(* Calls: a call returns [raised, value]; raised = "None" is a normal      *)
(* return.                                                                 *)
(***************************************************************************)
Return(v) == [raised |-> "None", value |-> v]
Raise(t) == [raised |-> t, value |-> None]

\* cls(*data): a TypeError when the number of arguments is not the arity.
New(cls, data) ==
    IF Len(data) # Arity(cls) THEN [raised |-> "TypeError", value |-> NoTraining]
    ELSE [raised |-> "None",
          value |->
            CASE cls = "SportsWalking" ->
                   SportsWalking_init(data[1], data[2], data[3], data[4])
              [] cls = "Swimming" ->
                   Swimming_init(data[1], data[2], data[3], data[4], data[5])
              [] OTHER -> Training_init(cls, data[1], data[2], data[3])]

\* x / y, raising ZeroDivisionError when y == 0.
TrueDiv(x, y) == IF IsZero(y) THEN Raise("ZeroDivisionError") ELSE Return(Div(x, y))

Training_get_distance(self) ==
    Return(Div(Mul(self.action, LEN_STEP(self.cls)), Num(M_IN_KM)))

Swimming_get_distance(self) ==
    Return(Div(Mul(self.action, LEN_STEP(self.cls)), Num(M_IN_KM)))

get_distance(self) ==
    IF self.cls = "Swimming" THEN Swimming_get_distance(self)
    ELSE Training_get_distance(self)

Training_get_mean_speed(self) ==
    TrueDiv(get_distance(self).value, self.duration)

\* Faulty variant: the override missing, so that the base formula is inherited.
Swimming_get_mean_speed_inherited(self) == Training_get_mean_speed(self)

Swimming_get_mean_speed(self) ==
    TrueDiv(Div(Mul(self.length_pool, self.count_pool), Num(M_IN_KM)),
            self.duration)

get_mean_speed(self) ==
    IF self.cls = "Swimming" THEN Swimming_get_mean_speed(self)
    ELSE Training_get_mean_speed(self)

Training_get_spent_calories(self) == Raise("NotImplementedError")

\* Faulty variant: the two coefficients in each other's place.
Running_get_spent_calories_swapped(self) ==
    LET speed == get_mean_speed(self) IN
    IF speed.raised # "None" THEN speed
    ELSE Return(
        Mul(Mul(Div(Mul(Sub(Mul(Num(COEFF_2_FOR_CALCULATING_BURNED_CALORIES_RUNNING),
                                speed.value),
                            Num(COEFF_1_FOR_CALCULATING_BURNED_CALORIES_RUNNING)),
                        self.weight),
                    Num(M_IN_KM)),
                self.duration),
            Num(MIN_IN_H)))

Running_get_spent_calories(self) ==
    LET speed == get_mean_speed(self) IN
    IF speed.raised # "None" THEN speed
    ELSE Return(
        Mul(Mul(Div(Mul(Sub(Mul(Num(COEFF_1_FOR_CALCULATING_BURNED_CALORIES_RUNNING),
                                speed.value),
                            Num(COEFF_2_FOR_CALCULATING_BURNED_CALORIES_RUNNING)),
                        self.weight),
                    Num(M_IN_KM)),
                self.duration),
            Num(MIN_IN_H)))

\* Faulty variant: true division in place of the floor division.
SpeedTermTrueDiv(speed, height) == Div(Mul(speed, speed), height)

\* speed ** 2 // height: the power binds tighter than the floor division.
SpeedTerm(speed, height) == FloorDivide(Mul(speed, speed), height)

SportsWalking_get_spent_calories(self) ==
    LET speed == get_mean_speed(self) IN
    IF speed.raised # "None" THEN speed
    ELSE IF IsZero(self.height) THEN Raise("ZeroDivisionError")
    ELSE Return(
        Mul(Mul(Add(Mul(COEFF_1_FOR_CALCULATING_BURNED_CALORIES_SPORTSWALKING,
                        self.weight),
                    Mul(Mul(SpeedTerm(speed.value, self.height),
                            COEFF_2_FOR_CALCULATING_BURNED_CALORIES_SPORTSWALKING),
                        self.weight)),
                self.duration),
            Num(MIN_IN_H)))

Swimming_get_spent_calories(self) ==
    LET speed == get_mean_speed(self) IN
    IF speed.raised # "None" THEN speed
    ELSE Return(
        Mul(Mul(Add(speed.value, COEFF_1_FOR_CALCULATING_BURNED_CALORIES_SWIMMING),
                Num(COEFF_2_FOR_CALCULATING_BURNED_CALORIES_SWIMMING)),
            self.weight))

get_spent_calories(self) ==
    CASE self.cls = "Running" -> Running_get_spent_calories(self)
      [] self.cls = "SportsWalking" -> SportsWalking_get_spent_calories(self)
      [] self.cls = "Swimming" -> Swimming_get_spent_calories(self)
      [] OTHER -> Training_get_spent_calories(self)

\* Faulty variant: get_spent_calories keeps its result in self.calories.
SelfAfterCaching(op, self, result) ==
    IF op = "get_spent_calories" /\ result.raised = "None"
      THEN [self EXCEPT !.calories = result.value]
      ELSE self

\* The object after a call of one of its four methods: none of them assigns
\* an attribute of self.
SelfAfter(op, self, result) == self

Methods == {"get_distance", "get_mean_speed", "get_spent_calories"}

Invoke(op, self) ==
    CASE op = "get_distance" -> get_distance(self)
      [] op = "get_mean_speed" -> get_mean_speed(self)
      [] op = "get_spent_calories" -> get_spent_calories(self)

(***************************************************************************)
(* InfoMessage                                                             *)
(***************************************************************************)
NoInfo ==
    [training_type |-> "None", duration |-> None, distance |-> None,
     speed |-> None, calories |-> None]

InfoMessage(training_type, duration, distance, speed, calories) ==
    [training_type |-> training_type, duration |-> duration,
     distance |-> distance, speed |-> speed, calories |-> calories]

\* show_training_info: the arguments are evaluated left to right and the
\* first exception propagates.
show_training_info(self) ==
    LET distance == get_distance(self)
        speed == get_mean_speed(self)
        calories == get_spent_calories(self)
    IN  IF distance.raised # "None"
          THEN [raised |-> distance.raised, value |-> NoInfo]
        ELSE IF speed.raised # "None"
          THEN [raised |-> speed.raised, value |-> NoInfo]
        ELSE IF calories.raised # "None"
          THEN [raised |-> calories.raised, value |-> NoInfo]
        ELSE [raised |-> "None",
              value |-> InfoMessage(self.cls, self.duration, distance.value,
                                    speed.value, calories.value)]

DigitChars == <<"0", "1", "2", "3", "4", "5", "6", "7", "8", "9">>

\* The decimal digits of the natural number i, most significant first.
RECURSIVE Digits(_)
Digits(i) ==
    IF i < 10 THEN <<DigitChars[i + 1]>>
    ELSE Append(Digits(i \div 10), DigitChars[(i % 10) + 1])

\* The number of digits the format specification asks for after the point.
Precision == 3

RECURSIVE Pow10(_)
Pow10(e) == IF e = 0 THEN 1 ELSE 10 * Pow10(e - 1)

\* The last p digits of the natural number i, zero padded.
RECURSIVE Fraction(_, _)
Fraction(i, p) ==
    IF p = 0 THEN <<>>
    ELSE Append(Fraction(i \div 10, p - 1), DigitChars[(i % 10) + 1])

\* |x| * 10^p rounded to the nearest integer, ties to even.
RoundHalfEven(x, p) ==
    LET num == Abs(x.n) * Pow10(p)
        q == num \div x.d
        r == num % x.d
    IN  IF 2 * r > x.d \/ (2 * r = x.d /\ q % 2 = 1) THEN q + 1 ELSE q

\* Faulty variant: one digit fewer after the point.
format_f_short(x, p) ==
    CASE x.k = "nan" -> <<"n", "a", "n">>
      [] x.k = "inf" -> (IF x.n < 0 THEN <<"-">> ELSE <<>>) \o <<"i", "n", "f">>
      [] OTHER ->
           LET q == RoundHalfEven(x, p - 1) IN
           (IF x.n < 0 THEN <<"-">> ELSE <<>>)
             \o Digits(q \div Pow10(p - 1)) \o <<".">>
             \o Fraction(q % Pow10(p - 1), p - 1)

\* format(x, '.3f'): the text as a sequence of characters. A finite number
\* is rendered in fixed point; infinities and nan are rendered by name.
format_f(x, p) ==
    CASE x.k = "nan" -> <<"n", "a", "n">>
      [] x.k = "inf" -> (IF x.n < 0 THEN <<"-">> ELSE <<>>) \o <<"i", "n", "f">>
      [] OTHER ->
           LET q == RoundHalfEven(x, p) IN
           (IF x.n < 0 THEN <<"-">> ELSE <<>>)
             \o Digits(q \div Pow10(p)) \o <<".">> \o Fraction(q % Pow10(p), p)

\* The literal text of the template is Cyrillic in the source; it is written
\* here in Latin transliteration. A template item is a literal (field = "")
\* or a replacement field with its format specification.
Lit(text) == [text |-> text, field |-> "", spec |-> ""]
Field(name, spec) == [text |-> "", field |-> name, spec |-> spec]

info ==
    << Lit("Tip trenirovki: "), Field("training_type", ""),
       Lit("; Dlitelnost: "), Field("duration", ".3f"),
       Lit(" ch.; Distantsiya: "), Field("distance", ".3f"),
       Lit(" km; Sr. skorost: "), Field("speed", ".3f"),
       Lit(" km/ch; Potracheno kkal: "), Field("calories", ".3f"),
       Lit(".") >>

\* self.info.format(**asdict(self)): one piece of text per template item.
get_message(self) ==
    [i \in DOMAIN info |->
        IF info[i].field = "" THEN <<info[i].text>>
        ELSE IF info[i].spec = ".3f" THEN format_f(self[info[i].field], Precision)
        ELSE <<self[info[i].field]>>]

(***************************************************************************)
(* read_package                                                            *)
(***************************************************************************)
\* The keys of workout_generator in insertion order, and its values.
workout_codes == <<"SWM", "RUN", "WLK">>

workout_generator ==
    [code \in {"SWM", "RUN", "WLK"} |->
        CASE code = "SWM" -> "Swimming"
          [] code = "RUN" -> "Running"
          [] code = "WLK" -> "SportsWalking"]

\* ', '.join(keys)
RECURSIVE Join(_)
Join(keys) ==
    IF Len(keys) = 0 THEN <<>>
    ELSE IF Len(keys) = 1 THEN keys
    ELSE <<Head(keys), ", ">> \o Join(Tail(keys))

NoError == [type |-> "None", msg |-> <<>>]
Error(type, msg) == [type |-> type, msg |-> msg]

KnownType(workout_type) == workout_type \in DOMAIN workout_generator

\* Faulty variant: only the first item is compared with zero.
HasNullItemFirstOnly(data) == Len(data) > 0 /\ IsZero(data[1])

HasNullItem(data) == \E i \in DOMAIN data : IsZero(data[i])

\* Faulty variant: the data are validated before the workout type.
read_package_data_first(workout_type, data) ==
    IF HasNullItem(data)
      THEN [raised |-> Error("IndexError", <<"Data items can not be null">>),
            value |-> NoTraining]
    ELSE IF Len(data) = 0
      THEN [raised |-> Error("IndexError", <<"Invalid data">>),
            value |-> NoTraining]
    ELSE IF ~KnownType(workout_type)
      THEN [raised |-> Error("KeyError",
                             <<"Invalid training type. Available types: ">>
                                \o Join(workout_codes)),
            value |-> NoTraining]
    ELSE LET made == New(workout_generator[workout_type], data)
         IN  [raised |-> Error(made.raised, <<>>), value |-> made.value]

\* Faulty variant: the length of the data is not checked.
read_package_no_length_check(workout_type, data) ==
    IF ~KnownType(workout_type)
      THEN [raised |-> Error("KeyError",
                             <<"Invalid training type. Available types: ">>
                                \o Join(workout_codes)),
            value |-> NoTraining]
    ELSE IF HasNullItem(data)
      THEN [raised |-> Error("IndexError", <<"Data items can not be null">>),
            value |-> NoTraining]
    ELSE LET made == New(workout_generator[workout_type], data)
         IN  [raised |-> Error(made.raised, <<>>), value |-> made.value]

read_package(workout_type, data) ==
    IF ~KnownType(workout_type)
      THEN [raised |-> Error("KeyError",
                             <<"Invalid training type. Available types: ">>
                                \o Join(workout_codes)),
            value |-> NoTraining]
    ELSE IF HasNullItem(data)
      THEN [raised |-> Error("IndexError", <<"Data items can not be null">>),
            value |-> NoTraining]
    ELSE IF Len(data) = 0
      THEN [raised |-> Error("IndexError", <<"Invalid data">>),
            value |-> NoTraining]
    ELSE LET made == New(workout_generator[workout_type], data)
         IN  [raised |-> Error(made.raised, <<>>), value |-> made.value]

(***************************************************************************)
(* main and the script                                                     *)
(***************************************************************************)
\* main(training): the line handed to print, or the exception that
\* show_training_info raises.
main(training_arg) ==
    LET shown == show_training_info(training_arg) IN
    IF shown.raised # "None" THEN [raised |-> shown.raised, value |-> <<>>]
    ELSE [raised |-> "None", value |-> get_message(shown.value)]

Package(workout_type, data) == [workout_type |-> workout_type, data |-> data]

\* The list the script iterates.
Packages ==
    << Package("SWM", <<Num(720), Num(1), Num(80), Num(25), Num(40)>>),
       Package("RUN", <<Num(15000), Num(1), Num(75)>>),
       Package("WLK", <<Num(9000), Num(1), Num(75), Num(180)>>) >>

(***************************************************************************)
(* Inputs                                                                  *)
(***************************************************************************)
\* The longest data list handed to read_package or to a constructor.
MaxLen == 5

\* The numbers tried at position i of a data list: the script's own values,
\* zero, a fractional duration and a negative fourth field.
FieldValues(i) ==
    CASE i = 1 -> {Num(0), Num(720), Num(9000), Num(15000)}
      [] i = 2 -> {Num(0), Num(1), Rat(3, 2)}
      [] i = 3 -> {Num(0), Num(75), Num(80)}
      [] i = 4 -> {Num(0), Num(25), Num(180), Num(-7)}
      [] i = 5 -> {Num(0), Num(40)}
      [] OTHER -> {Num(1)}

RECURSIVE Lists(_)
Lists(len) ==
    IF len = 0 THEN {<<>>}
    ELSE {Append(l, v) : l \in Lists(len - 1), v \in FieldValues(len)}

DataLists == UNION {Lists(len) : len \in 0..MaxLen}

WorkoutTypes == {"SWM", "RUN", "WLK", "XYZ"}

\* The numbers tried as the fields of an InfoMessage built directly: small,
\* large, negative, a tie at the third decimal, one that carries into the
\* integer part, and the floats that are not finite.
FloatValues ==
    {Num(1), Rat(1, 16), Rat(-4, 10000), Rat(99996, 10000), Num(123456),
     PosInf, NegInf, NaN}

\* Packages that make read_package raise.
FaultyPackages ==
    {Package("XYZ", <<Num(15000), Num(1), Num(75)>>),
     Package("RUN", <<Num(15000), Num(0), Num(75)>>),
     Package("WLK", <<>>)}

\* The script's list, and the lists that differ from it by faulty packages.
PackageLists ==
    {l \in [DOMAIN Packages -> {Packages[i] : i \in DOMAIN Packages}
                                  \cup FaultyPackages] :
        \A i \in DOMAIN Packages : l[i] = Packages[i] \/ l[i] \in FaultyPackages}

(***************************************************************************)
(* State                                                                   *)
(***************************************************************************)
VARIABLES
    call,           \* the call that made the object under test, and what it raised
    training,       \* the Training object in hand (NoTraining: none)
    results,        \* per method, what its last call on training returned
    info_message,   \* the InfoMessage in hand (NoInfo: none)
    message,        \* the text get_message returned (<<>>: not called)
    raised,         \* the exception the last method call raised
    packages,       \* script: the list iterated
    idx,            \* script: the position of the loop in packages
    pc,             \* script: where it stands
    stdout          \* script: the lines printed so far

vars == <<call, training, results, info_message, message, raised,
          packages, idx, pc, stdout>>

clientVars == <<call, results, info_message, message>>
scriptVars == <<packages, idx, pc, stdout>>

Unset == [raised |-> "unset", value |-> None]
NoCall == [op |-> "none", target |-> "", data |-> <<>>, raised |-> NoError]

Init ==
    /\ call = NoCall
    /\ training = NoTraining
    /\ results = [op \in Methods |-> Unset]
    /\ info_message = NoInfo
    /\ message = <<>>
    /\ raised = "None"
    /\ packages = Packages
    /\ idx = 1
    /\ pc = "idle"
    /\ stdout = <<>>

(***************************************************************************)
(* A client of the module: it makes one object, by read_package or by a    *)
(* constructor, and then calls its methods in any order, any number of     *)
(* times. read_package and the constructors read no state, so one creation *)
(* per behaviour covers every call of them.                                *)
(***************************************************************************)
ReadPackage(workout_type, data) ==
    LET r == read_package(workout_type, data) IN
    /\ call' = [op |-> "read_package", target |-> workout_type, data |-> data,
                raised |-> r.raised]
    /\ training' = r.value
    /\ UNCHANGED <<results, info_message, message, raised, scriptVars>>

Construct(cls, data) ==
    LET r == New(cls, data) IN
    /\ call' = [op |-> "constructor", target |-> cls, data |-> data,
                raised |-> Error(r.raised, <<>>)]
    /\ training' = r.value
    /\ UNCHANGED <<results, info_message, message, raised, scriptVars>>

NewInfoMessage(training_type, duration, distance, speed, calories) ==
    /\ call' = [op |-> "InfoMessage", target |-> training_type, data |-> <<>>,
                raised |-> NoError]
    /\ info_message' = InfoMessage(training_type, duration, distance, speed,
                                   calories)
    /\ UNCHANGED <<training, results, message, raised, scriptVars>>

CallMethod(op) ==
    LET r == Invoke(op, training) IN
    /\ training # NoTraining
    /\ pc = "idle"
    /\ results' = [results EXCEPT ![op] = r]
    /\ raised' = r.raised
    /\ training' = SelfAfter(op, training, r)
    /\ UNCHANGED <<call, info_message, message, scriptVars>>

ShowTrainingInfo ==
    LET r == show_training_info(training) IN
    /\ training # NoTraining
    /\ pc = "idle"
    /\ raised' = r.raised
    /\ info_message' = IF r.raised = "None" THEN r.value ELSE info_message
    /\ training' = SelfAfter("show_training_info", training, r)
    /\ UNCHANGED <<call, results, message, scriptVars>>

GetMessage ==
    /\ info_message # NoInfo
    /\ pc = "idle"
    /\ message' = get_message(info_message)
    /\ UNCHANGED <<call, training, results, info_message, raised, scriptVars>>

\* Nothing has been made yet.
Fresh == call.op = "none" /\ pc = "idle"

Next ==
    \/ Fresh /\ \E workout_type \in WorkoutTypes, data \in DataLists :
                  ReadPackage(workout_type, data)
    \/ Fresh /\ \E cls \in Classes, data \in DataLists : Construct(cls, data)
    \/ Fresh /\ \E training_type \in {"Running", "Swimming"},
                     duration, distance, speed, calories \in FloatValues :
                  NewInfoMessage(training_type, duration, distance, speed,
                                 calories)
    \/ \E op \in Methods : CallMethod(op)
    \/ ShowTrainingInfo
    \/ GetMessage

Spec == Init /\ [][Next]_vars

(***************************************************************************)
(* The script: for workout_type, data in packages: read_package, then      *)
(* main. An exception ends the run.                                        *)
(***************************************************************************)
ScriptInit ==
    /\ call = NoCall
    /\ training = NoTraining
    /\ results = [op \in Methods |-> Unset]
    /\ info_message = NoInfo
    /\ message = <<>>
    /\ raised = "None"
    /\ packages \in PackageLists
    /\ idx = 1
    /\ pc = "read_package"
    /\ stdout = <<>>

\* Faulty variant: an exception of read_package is swallowed and the loop goes on.
ScriptReadSwallowing ==
    /\ pc = "read_package"
    /\ idx <= Len(packages)
    /\ LET r == read_package(packages[idx].workout_type, packages[idx].data) IN
       IF r.raised.type # "None"
         THEN /\ raised' = r.raised.type
              /\ idx' = idx + 1
              /\ pc' = "read_package"
              /\ UNCHANGED training
         ELSE /\ training' = r.value
              /\ pc' = "main"
              /\ UNCHANGED <<raised, idx>>
    /\ UNCHANGED <<clientVars, packages, stdout>>

ScriptRead ==
    /\ pc = "read_package"
    /\ idx <= Len(packages)
    /\ LET r == read_package(packages[idx].workout_type, packages[idx].data) IN
       IF r.raised.type # "None"
         THEN /\ raised' = r.raised.type
              /\ pc' = "failed"
              /\ UNCHANGED <<training, idx>>
         ELSE /\ training' = r.value
              /\ pc' = "main"
              /\ UNCHANGED <<raised, idx>>
    /\ UNCHANGED <<clientVars, packages, stdout>>

ScriptMain ==
    /\ pc = "main"
    /\ LET r == main(training) IN
       IF r.raised # "None"
         THEN /\ raised' = r.raised
              /\ pc' = "failed"
              /\ UNCHANGED <<idx, stdout>>
         ELSE /\ stdout' = Append(stdout, r.value)
              /\ idx' = idx + 1
              /\ pc' = "read_package"
              /\ UNCHANGED raised
    /\ UNCHANGED <<clientVars, training, packages>>

ScriptEnd ==
    /\ pc = "read_package"
    /\ idx > Len(packages)
    /\ pc' = "done"
    /\ UNCHANGED <<clientVars, training, raised, packages, idx, stdout>>

ScriptNext == ScriptRead \/ ScriptMain \/ ScriptEnd

ScriptSpec == ScriptInit /\ [][ScriptNext]_vars

(***************************************************************************)
(* Properties                                                              *)
(***************************************************************************)
Leq(x, y) == x.n * y.d <= y.n * x.d

Returned(op) == results[op].raised = "None"

Fields(self) ==
    CASE self.cls = "SportsWalking" -> {"action", "duration", "weight", "height"}
      [] self.cls = "Swimming" ->
           {"action", "duration", "weight", "length_pool", "count_pool"}
      [] OTHER -> {"action", "duration", "weight"}

\* The workout codes a KeyError message lists after its leading text.
CodesListed(msg) == {msg[i] : i \in 2..Len(msg)} \ {", "}

IsDigit(c) == \E i \in DOMAIN DigitChars : DigitChars[i] = c

\* The text has one decimal point, at least one digit before it and exactly
\* three digits after it.
ThreeDecimals(chars) ==
    \E p \in DOMAIN chars :
        /\ chars[p] = "."
        /\ Len(chars) = p + 3
        /\ \A j \in DOMAIN chars : j # p =>
              (IsDigit(chars[j]) \/ (j = 1 /\ chars[j] = "-" /\ p > 2))
        /\ p > 1 /\ IsDigit(chars[p - 1])

DigitValue(c) == CHOOSE i \in 0..9 : DigitChars[i + 1] = c

\* The natural number the digits of the text spell, other characters skipped.
RECURSIVE DigitsValue(_)
DigitsValue(chars) ==
    IF Len(chars) = 0 THEN 0
    ELSE LET front == SubSeq(chars, 1, Len(chars) - 1)
             c == chars[Len(chars)]
         IN  IF IsDigit(c) THEN 10 * DigitsValue(front) + DigitValue(c)
             ELSE DigitsValue(front)

\* The text, read as a decimal with three decimals, is the finite number x
\* to within half a thousandth, and carries a minus sign iff x is negative.
Denotes(chars, x) ==
    /\ Abs(2 * Abs(x.n) * 1000 - 2 * DigitsValue(chars) * x.d) <= x.d
    /\ (chars[1] = "-") <=> (x.n < 0)

NumericItems == {i \in DOMAIN info : info[i].spec = ".3f"}

\* C1: read_package with a workout code other than 'SWM', 'RUN', 'WLK' raises
\* KeyError, whatever the data (empty, or with zeros), its message lists
\* exactly the codes SWM, RUN, WLK, and no training is made.
C1_UnknownTypeKeyError ==
    (call.op = "read_package" /\ call.target \notin {"SWM", "RUN", "WLK"}) =>
        /\ call.raised.type = "KeyError"
        /\ Len(call.raised.msg) = 6
        /\ CodesListed(call.raised.msg) = {"SWM", "RUN", "WLK"}
        /\ training = NoTraining

C1_Witness ==
    /\ call.op = "read_package"
    /\ call.target = "XYZ"
    /\ Len(call.data) = 3
    /\ IsZero(call.data[2])
    /\ call.raised.type = "KeyError"

\* C2: read_package with a recognized code and an empty data list raises
\* IndexError 'Invalid data' and makes no training.
C2_EmptyDataIndexError ==
    (call.op = "read_package" /\ call.target \in {"SWM", "RUN", "WLK"}
        /\ call.data = <<>>) =>
        /\ call.raised = Error("IndexError", <<"Invalid data">>)
        /\ training = NoTraining

C2_Witness ==
    /\ call.op = "read_package"
    /\ call.target = "WLK"
    /\ call.data = <<>>
    /\ call.raised.type = "IndexError"

\* C3: read_package with a recognized code and nonzero numbers of the
\* variant's arity returns the matching variant with the list elements as
\* its fields in the order action, duration, weight, then height (walking)
\* or pool length and pool lap count (swimming).
C3_DispatchPositional ==
    LET arity == CASE call.target = "SWM" -> 5
                   [] call.target = "RUN" -> 3
                   [] OTHER -> 4
    IN
    (call.op = "read_package" /\ call.target \in {"SWM", "RUN", "WLK"}
        /\ Len(call.data) = arity
        /\ \A i \in DOMAIN call.data : call.data[i] # Num(0)) =>
        /\ call.raised.type = "None"
        /\ training.cls = (CASE call.target = "SWM" -> "Swimming"
                             [] call.target = "RUN" -> "Running"
                             [] OTHER -> "SportsWalking")
        /\ training.action = call.data[1]
        /\ training.duration = call.data[2]
        /\ training.weight = call.data[3]
        /\ call.target = "WLK" => training.height = call.data[4]
        /\ call.target = "SWM" =>
              /\ training.length_pool = call.data[4]
              /\ training.count_pool = call.data[5]

C3_Witness ==
    /\ call.op = "read_package"
    /\ call.target = "SWM"
    /\ training.cls = "Swimming"
    /\ training.length_pool = Num(25)
    /\ training.count_pool = Num(40)

IsScriptRun ==
    /\ training.cls = "Running"
    /\ training.action = Num(15000)
    /\ training.duration = Num(1)
    /\ training.weight = Num(75)

\* C4 as stated: Running with action=15000, duration=1, weight=75 has
\* distance 9.75, mean speed 9.75 and calories within a half of 722.25.
C4_AsStated ==
    (IsScriptRun /\ Returned("get_spent_calories")) =>
        LET c == results["get_spent_calories"].value IN
        /\ Leq(Rat(72175, 100), c)
        /\ Leq(c, Rat(72275, 100))

\* C4 (amended): Running with action=15000, duration=1, weight=75 has
\* distance 9.75 km, mean speed 9.75 km/h and calories
\* (18 * 9.75 - 20) * 75 / 1000 * 1 * 60 = 699.75.
C4_RunningExample ==
    IsScriptRun =>
        /\ results["get_distance"] # Unset =>
              results["get_distance"] = Return(Rat(975, 100))
        /\ results["get_mean_speed"] # Unset =>
              results["get_mean_speed"] = Return(Rat(975, 100))
        /\ results["get_spent_calories"] # Unset =>
              results["get_spent_calories"] = Return(Rat(69975, 100))

C4_Witness ==
    /\ IsScriptRun
    /\ \A op \in Methods : Returned(op)

\* C5: for a Swimming sample with nonzero duration the mean speed is
\* length_pool * count_pool / 1000 / duration and the calories are
\* (mean_speed + 1.1) * 2 * weight; neither depends on action (only the
\* distance, action * 1.38 / 1000, does). action=720, duration=1, weight=80,
\* length_pool=25, count_pool=40 gives mean speed 1.0 and calories 336.0.
C5_SwimmingIgnoresAction ==
    (training.cls = "Swimming" /\ training.duration # Num(0)) =>
        LET speed == Div(Div(Mul(training.length_pool, training.count_pool),
                             Num(1000)),
                         training.duration)
            kcal == Mul(Mul(Add(speed, Rat(11, 10)), Num(2)), training.weight)
        IN
        /\ results["get_mean_speed"] # Unset =>
              results["get_mean_speed"] = Return(speed)
        /\ results["get_spent_calories"] # Unset =>
              results["get_spent_calories"] = Return(kcal)
        /\ results["get_distance"] # Unset =>
              results["get_distance"] =
                  Return(Div(Mul(training.action, Rat(138, 100)), Num(1000)))
        /\ \A a \in FieldValues(1) :
              LET other == [training EXCEPT !.action = a] IN
              /\ get_mean_speed(other) = get_mean_speed(training)
              /\ get_spent_calories(other) = get_spent_calories(training)
              /\ a # training.action =>
                    get_distance(other) # get_distance(training)
        /\ (/\ training.duration = Num(1) /\ training.weight = Num(80)
            /\ training.length_pool = Num(25) /\ training.count_pool = Num(40)
            /\ Returned("get_mean_speed") /\ Returned("get_spent_calories")) =>
              /\ results["get_mean_speed"].value = Num(1)
              /\ results["get_spent_calories"].value = Num(336)

C5_Witness ==
    /\ training.cls = "Swimming"
    /\ training.action = Num(720)
    /\ training.duration = Num(1)
    /\ training.weight = Num(80)
    /\ training.length_pool = Num(25)
    /\ training.count_pool = Num(40)
    /\ \A op \in Methods : Returned(op)

\* The range the floored quotient is looked for in.
QuotientRange == -1000..1000

\* C6: for a SportsWalking sample the calories are
\* (0.035 * weight + floor(mean_speed^2 / height) * 0.029 * weight)
\* * duration * 60, the quotient floored before it is multiplied; when
\* 0 <= mean_speed^2 < height the calories are 0.035 * weight * duration * 60.
\* action=9000, duration=1, weight=75, height=180 gives distance 5.85,
\* speed 5.85 and calories 157.5.
C6_WalkingFloorDivision ==
    (training.cls = "SportsWalking" /\ Returned("get_spent_calories")) =>
        LET speed == Div(Div(Mul(training.action, Rat(65, 100)), Num(1000)),
                         training.duration)
            square == Mul(speed, speed)
            quotient == Div(square, training.height)
            base == Mul(Mul(Mul(Rat(35, 1000), training.weight),
                            training.duration), Num(60))
            kcal == results["get_spent_calories"].value
        IN
        /\ \E f \in QuotientRange :
              /\ Leq(Num(f), quotient)
              /\ ~Leq(Num(f + 1), quotient)
              /\ kcal = Mul(Mul(Add(Mul(Rat(35, 1000), training.weight),
                                    Mul(Mul(Num(f), Rat(29, 1000)),
                                        training.weight)),
                                training.duration),
                            Num(60))
        /\ (Leq(Num(0), square) /\ ~Leq(training.height, square)) => kcal = base
        /\ (/\ training.action = Num(9000) /\ training.duration = Num(1)
            /\ training.weight = Num(75) /\ training.height = Num(180)) =>
              /\ kcal = Rat(1575, 10)
              /\ Returned("get_distance") =>
                    results["get_distance"].value = Rat(585, 100)
              /\ Returned("get_mean_speed") =>
                    results["get_mean_speed"].value = Rat(585, 100)

\* A walking sample whose quotient mean_speed^2 / height is not an integer
\* and not below one, with its calories computed.
C6_Witness ==
    /\ training.cls = "SportsWalking"
    /\ training.action = Num(9000)
    /\ training.duration = Num(1)
    /\ training.weight = Num(75)
    /\ training.height = Num(25)
    /\ \A op \in Methods : Returned(op)

\* The class name a printed line carries.
LineClass(line) == line[2][1]

ScriptOrdered ==
    \* a line is printed for a sample before the next sample is read
    /\ pc \in {"read_package", "done"} => Len(stdout) = idx - 1
    /\ pc = "main" => (Len(stdout) = idx - 1 /\ idx <= Len(packages))
    \* one line per sample read so far, in the order of the list
    /\ \A i \in DOMAIN stdout :
          /\ i <= Len(packages)
          /\ packages[i].workout_type \in {"SWM", "RUN", "WLK"}
          /\ LineClass(stdout[i]) =
                (CASE packages[i].workout_type = "SWM" -> "Swimming"
                   [] packages[i].workout_type = "RUN" -> "Running"
                   [] OTHER -> "SportsWalking")
    \* the script's own list: no failure, and three lines at the end
    /\ packages = Packages =>
          /\ pc # "failed"
          /\ pc = "done" =>
                /\ Len(stdout) = 3
                /\ LineClass(stdout[1]) = "Swimming"
                /\ LineClass(stdout[2]) = "Running"
                /\ LineClass(stdout[3]) = "SportsWalking"
    \* a failure is the failure of the sample at idx, and nothing of it or of
    \* a later sample is printed
    /\ pc = "failed" =>
          /\ raised # "None"
          /\ packages[idx] \in FaultyPackages
          /\ Len(stdout) = idx - 1
    /\ pc = "done" => \A i \in DOMAIN packages : packages[i] \notin FaultyPackages

\* After the end or a failure nothing is read or printed.
ScriptStopped == pc \in {"done", "failed"} => UNCHANGED vars

\* What is left of the run: two steps per sample not yet printed, one less
\* once the sample is read, none after the end or a failure.
StepsLeft ==
    CASE pc = "read_package" -> 2 * (Len(packages) + 1 - idx) + 1
      [] pc = "main" -> 2 * (Len(packages) + 1 - idx)
      [] OTHER -> 0

\* C7: the script processes its list in order (SWM, RUN, WLK): each sample is
\* read and its line printed before the next is read, one line per sample,
\* and the run ends after three lines (every step brings the end nearer);
\* when read_package fails for a sample the error propagates and no later
\* sample is read or printed.
C7_ScriptSequential ==
    [][/\ ScriptOrdered
       /\ ScriptOrdered'
       /\ ScriptStopped
       /\ StepsLeft' < StepsLeft
       /\ StepsLeft' >= 0]_vars

C7_Witness ==
    /\ pc = "done"
    /\ packages = Packages
    /\ Len(stdout) = 3

\* C8 as stated: every numeric field of the message has exactly three digits
\* after the decimal point, whatever the number.
C8_AsStated ==
    message # <<>> =>
        \A i \in NumericItems : ThreeDecimals(message[i])

\* C8 (amended): get_message renders each of the four numeric fields that
\* is a finite number with exactly three digits after the decimal point,
\* whatever its magnitude, in the template's order training type, duration,
\* distance, speed, calories (a float infinity or nan is rendered as inf,
\* -inf or nan, without digits).
C8_ThreeDecimalsWhenFinite ==
    message # <<>> =>
        /\ Len(message) = 11
        /\ message[2] = <<info_message.training_type>>
        /\ \A i \in NumericItems :
              LET x == info_message[info[i].field] IN
              IsFinite(x) => (ThreeDecimals(message[i]) /\ Denotes(message[i], x))
        /\ <<info[4].field, info[6].field, info[8].field, info[10].field>>
              = <<"duration", "distance", "speed", "calories">>

\* A message whose fields are large, negative, a rounding tie and one that
\* carries into the integer part.
C8_Witness ==
    /\ message # <<>>
    /\ info_message.duration = Num(123456)
    /\ info_message.distance = Rat(-4, 10000)
    /\ info_message.speed = Rat(1, 16)
    /\ info_message.calories = Rat(99996, 10000)

\* C9: read_package with a recognized code rejects a data list with an
\* element equal to 0 with IndexError 'Data items can not be null' and makes
\* no training; so no field of a training it returns is zero, and its mean
\* speed and calories never divide by zero.
C9_NoZeroFields ==
    /\ (call.op = "read_package" /\ call.target \in {"SWM", "RUN", "WLK"}
          /\ \E i \in DOMAIN call.data : call.data[i] = Num(0)) =>
          /\ call.raised = Error("IndexError", <<"Data items can not be null">>)
          /\ training = NoTraining
    /\ (call.op = "read_package" /\ training # NoTraining) =>
          /\ \A f \in Fields(training) : training[f] # Num(0)
          /\ \A op \in Methods : results[op].raised # "ZeroDivisionError"
          /\ raised # "ZeroDivisionError"

C9_Witness ==
    /\ call.op = "read_package"
    /\ training.cls = "SportsWalking"
    /\ \A op \in Methods : Returned(op)
    /\ info_message # NoInfo

\* What a step that keeps the object in hand must keep.
MethodStepKeeps ==
    training # NoTraining =>
        /\ training' = training
        /\ \A op \in Methods : results[op] # Unset => results'[op] = results[op]
        /\ info_message # NoInfo => info_message' = info_message

\* C10: a training is immutable after construction: calls of get_distance,
\* get_mean_speed, get_spent_calories and show_training_info leave every
\* field (the calories attribute set to None included) unchanged, so
\* repeated calls return the same distance, speed, calories and summary.
C10_Immutable == [][MethodStepKeeps]_vars

C10_Witness ==
    /\ training # NoTraining
    /\ training.calories = None
    /\ \A op \in Methods : Returned(op)
    /\ info_message # NoInfo
    /\ message # <<>>

====
